---- MODULE Spec2Model ----
\* SmartPay frontend (src/frontend_app.py): the Prediction tab's
\* request / response / history cycle, one Streamlit session.
EXTENDS Integers, Sequences, FiniteSets, TLC

\* ---------------------------------------------------------------
\* Bounds of the model
\* ---------------------------------------------------------------
\* submissions per session in the general specification
MaxSubmissions == 3
\* submissions per session in the history specification (more than DisplayLimit)
MaxHistorySubmissions == 7

\* ---------------------------------------------------------------
\* Python values
\* ---------------------------------------------------------------
\* A value is [t, n, u]: t the type tag, n the nominal integer, u the offset
\* in units in the last place of the double from n (0 = the double is n).
PyNone == [t |-> "null", n |-> 0, u |-> 0]
Absent == [t |-> "absent", n |-> 0, u |-> 0]
Num(n) == [t |-> "num", n |-> n, u |-> 0]
\* a JSON string: n >= 0 is the decimal text of n, n < 0 a non-numeric text
Str(n) == [t |-> "str", n |-> n, u |-> 0]

None == <<>>
Some(x) == <<x>>

\* python truthiness of a value (None, 0 and 0.0 are falsy)
Truthy(v) ==
    CASE v.t = "null" -> FALSE
      [] v.t = "absent" -> FALSE
      [] v.t = "num" -> ~(v.n = 0 /\ v.u = 0)
      [] OTHER -> TRUE

\* a or b
PyOr(a, b) == IF Truthy(a) THEN a ELSE b

\* float(v) raises TypeError on None, ValueError on a non-numeric string
FloatRaises(v) ==
    CASE v.t = "null" -> "TypeError"
      [] v.t = "str" /\ v.n < 0 -> "ValueError"
      [] OTHER -> "none"

float(v) == [t |-> "num", n |-> v.n, u |-> v.u]

\* ---------------------------------------------------------------
\* IEEE-754 double multiplication by the literals 0.85 and 1.15
\* ---------------------------------------------------------------
\* The double nearest s/100 is (s * 2^sh - r) / (100 * 2^sh):
\*   0.85 -> 7656119366529843 / 2^53 = (85 * 2^53 - 20) / (100 * 2^53)
\*   1.15 -> 5179139571476070 / 2^52 = (115 * 2^52 - 40) / (100 * 2^52)
Lit085 == [s |-> 85, r |-> 20, sh |-> 53]
Lit115 == [s |-> 115, r |-> 40, sh |-> 52]

RECURSIVE Pow2(_)
Pow2(k) == IF k = 0 THEN 1 ELSE 2 * Pow2(k - 1)

RECURSIVE FloorLog2(_)
FloorLog2(n) == IF n < 2 THEN 0 ELSE 1 + FloorLog2(n \div 2)

\* predicted * lit, for predicted an integer-valued double p.n with p.n * s
\* divisible by 100.  The exact product is E - d, E = p.n * s / 100 and
\* d = p.n * r / (100 * 2^sh); one ulp below E is 2^(k-52), k = FloorLog2(E).
\* Round-to-nearest-even yields E unless d exceeds half an ulp, and then the
\* double just below E.
\* (E = 17 * p.n / 20 or 23 * p.n / 20 is never a power of two, so the product
\* lies in E's binade; on a tie E, whose significand is even, is chosen.)
FMul(p, lit) ==
    LET E == (p.n * lit.s) \div 100
        k == FloorLog2(E)
        half == IF lit.sh = 53 THEN 100 * Pow2(k) ELSE 50 * Pow2(k)
    IN  IF p.n = 0 THEN Num(0)
        ELSE [t |-> "num", n |-> E, u |-> IF p.n * lit.r > half THEN -1 ELSE 0]

\* ---------------------------------------------------------------
\* Sidebar configuration
\* ---------------------------------------------------------------
Slash == "/"
BackendInputs == { <<>>, <<Slash>>, <<"h">>, <<"h", Slash>> }

RECURSIVE rstrip(_)
rstrip(s) ==
    IF s # <<>> /\ s[Len(s)] = Slash THEN rstrip(SubSeq(s, 1, Len(s) - 1)) ELSE s

BACKEND_URL(input) == IF input # <<>> THEN rstrip(input) ELSE <<>>

\* variant: the endpoint is built without the emptiness test of line 110
PREDICT_ENDPOINT_unguarded(input) == Some(BACKEND_URL(input) \o <<Slash, "predict">>)

\* None, or Some(url)
PREDICT_ENDPOINT(input) ==
    IF BACKEND_URL(input) # <<>>
    THEN Some(BACKEND_URL(input) \o <<Slash, "predict">>)
    ELSE None

\* ---------------------------------------------------------------
\* Form and payload
\* ---------------------------------------------------------------
Profiles ==
    { [age |-> 25, gender |-> "Male", education |-> "Bachelor's",
       marital_status |-> "Never Married", experience_level |-> "junior",
       employment_type |-> "FT", job_title |-> "Software Engineer",
       hours_per_week |-> 40, employee_residence |-> "India",
       company_location |-> "India", remote_ratio |-> 0, company_size |-> "M"],
      [age |-> 41, gender |-> "Female", education |-> "PhD",
       marital_status |-> "Married", experience_level |-> "senior",
       employment_type |-> "CT", job_title |-> "Data Scientist",
       hours_per_week |-> 35, employee_residence |-> "Germany",
       company_location |-> "France", remote_ratio |-> 100, company_size |-> "L"] }

BuildPayload(f) ==
    [age |-> float(Num(f.age)), gender |-> f.gender, education |-> f.education,
     marital_status |-> f.marital_status, experience_level |-> f.experience_level,
     employment_type |-> f.employment_type, job_title |-> f.job_title,
     hours_per_week |-> float(Num(f.hours_per_week)),
     employee_residence |-> f.employee_residence,
     company_location |-> f.company_location,
     remote_ratio |-> float(Num(f.remote_ratio)), company_size |-> f.company_size]

\* ---------------------------------------------------------------
\* Responses of the remote service
\* ---------------------------------------------------------------
Keys == {"predicted_salary_usd", "predicted_salary", "low", "high",
         "low_usd", "high_usd", "detail"}

EmptyDoc == [k \in Keys |-> Absent]

\* a response body: r.text.  json: the text parses as JSON; dict: the parsed
\* value is an object, doc its members
TextBody(json, dict, doc) == [json |-> json, dict |-> dict, doc |-> doc]
NotJsonText == TextBody(FALSE, FALSE, EmptyDoc)
JsonArrayText == TextBody(TRUE, FALSE, EmptyDoc)
JsonObject(doc) == TextBody(TRUE, TRUE, doc)

Response(status, text) == [status |-> status, text |-> text]

\* dict.get(key, default)
get(j, key, default) == IF j[key].t = "absent" THEN default ELSE j[key]

StatusOK == 200

\* transport failures raised by requests.post
TransportErrors == {"ConnectionError", "Timeout"}
NotConfigured == "RuntimeError: Backend URL not configured"

\* the members a service can send in a 200 or error body
PredictedUsdValues == {Absent, PyNone, Num(0), Num(20), Num(60000), Num(95000),
                       Str(95000), Str(-1)}
PredictedValues == {Absent, Num(20), Num(60000)}
LowValues == {Absent, PyNone, Num(0), Num(55000)}
HighValues == {Absent, PyNone, Num(0), Num(70000)}
LowUsdValues == {Absent, Num(50000)}
HighUsdValues == {Absent, Num(80000)}

Doc(pu, ps, lo, hi, lu, hu, de) ==
    [k \in Keys |->
        CASE k = "predicted_salary_usd" -> pu
          [] k = "predicted_salary" -> ps
          [] k = "low" -> lo
          [] k = "high" -> hi
          [] k = "low_usd" -> lu
          [] k = "high_usd" -> hu
          [] OTHER -> de]

AllDocs ==
    { Doc(pu, ps, lo, hi, lu, hu, Absent) :
        pu \in PredictedUsdValues, ps \in PredictedValues,
        lo \in LowValues, hi \in HighValues,
        lu \in LowUsdValues, hu \in HighUsdValues }

\* {"detail": "model error"}
DetailDoc == Doc(Absent, Absent, Absent, Absent, Absent, Absent, Str(-1))
\* {"predicted_salary_usd": 95000}
BareDoc == Doc(Num(95000), Absent, Absent, Absent, Absent, Absent, Absent)
\* {"predicted_salary_usd": 60000, "low": 55000, "high": 70000}
FullDoc == Doc(Num(60000), Absent, Num(55000), Num(70000), Absent, Absent, Absent)

ErrorStatuses == {404, 500}

\* what the service may answer in the parsing specification
ParseResponses ==
    { Response(st, JsonObject(d)) : st \in {StatusOK, 500}, d \in AllDocs \cup {DetailDoc} }
    \cup { Response(st, t) : st \in {StatusOK} \cup ErrorStatuses,
                             t \in {NotJsonText, JsonArrayText} }

\* what the service may answer in the session specification
Responses ==
    { Response(StatusOK, JsonObject(BareDoc)), Response(StatusOK, JsonObject(FullDoc)),
      Response(StatusOK, NotJsonText),
      Response(500, JsonObject(DetailDoc)), Response(404, NotJsonText) }

\* what the service may answer in the history specification
HistoryResponses ==
    { Response(StatusOK, JsonObject(BareDoc)), Response(StatusOK, JsonObject(FullDoc)),
      Response(500, JsonObject(DetailDoc)) }

\* ---------------------------------------------------------------
\* Parsing a 200 response (lines 335-338)
\* ---------------------------------------------------------------
\* variant: the two field names looked up in the opposite order
PredictedField_swapped(j) == get(j, "predicted_salary", get(j, "predicted_salary_usd", Num(0)))

PredictedField(j) == get(j, "predicted_salary_usd", get(j, "predicted_salary", Num(0)))

\* the exception lines 335-336 raise on body text, "none" if they do not
ParseRaises(text) ==
    CASE ~text.json -> "JSONDecodeError"
      [] ~text.dict -> "AttributeError"
      [] OTHER -> FloatRaises(PredictedField(text.doc))

predicted(j) == float(PredictedField(j))
low(j) == PyOr(get(j, "low", PyNone), FMul(predicted(j), Lit085))
\* variant: the upper bound derived with the lower bound's factor
high_wrong_factor(j) == PyOr(get(j, "high", PyNone), FMul(predicted(j), Lit085))

high(j) == PyOr(get(j, "high", PyNone), FMul(predicted(j), Lit115))

\* ---------------------------------------------------------------
\* Session state
\* ---------------------------------------------------------------
VARIABLES
    backend_input,  \* sidebar text input, a sequence of characters
    pc,             \* "idle", "request", "handle", "done": position of the script run
    payload,        \* payload of the submission in progress, None before the first
    r,              \* None or Some(response)
    api_err,        \* None or Some(exception caught at line 294)
    history,        \* st.session_state.history
    last_result,    \* st.session_state.last_result
    last_payload,   \* st.session_state.last_payload
    shown,          \* None or Some(message of st.error) of this script run
    raised,         \* exception that aborted this script run, "none" if none
    posts,          \* calls of requests.post made by the submission in progress
    netCalls,       \* calls of requests.post made in the session
    clock,          \* datetime.utcnow()
    nSubmit,        \* submissions begun in the session
    nSuccess,       \* submissions that reached line 341
    displayed,      \* None or Some(result shown by the gauge, lines 365-395)
    recent          \* entries listed under Recent Predictions, lines 402-409

vars == <<backend_input, pc, payload, r, api_err, history, last_result,
          last_payload, shown, raised, posts, netCalls, clock, nSubmit, nSuccess,
          displayed, recent>>

DisplayLimit == 6

\* history[:6]
Recent(h) == SubSeq(h, 1, IF Len(h) < DisplayLimit THEN Len(h) ELSE DisplayLimit)

\* the output layout as the script run reaches it: lines 365-397 and 402-409
Render(result, h) ==
    /\ displayed' = result
    /\ recent' = Recent(h)

NoBody == [form |-> "none", text |-> NotJsonText]

Init ==
    /\ backend_input \in BackendInputs
    /\ pc = "idle"
    /\ payload = None
    /\ r = None
    /\ api_err = None
    /\ history = <<>>
    /\ last_result = None
    /\ last_payload = None
    /\ shown = None
    /\ raised = "none"
    /\ posts = 0
    /\ netCalls = 0
    /\ clock = 0
    /\ nSubmit = 0
    /\ nSuccess = 0
    /\ displayed = None
    /\ recent = <<>>

\* the sidebar input is edited: the script reruns without predict_btn
SetBackend(input) ==
    /\ pc \in {"idle", "done"}
    /\ input # backend_input
    /\ backend_input' = input
    /\ pc' = "idle"
    /\ shown' = None
    /\ raised' = "none"
    /\ Render(last_result, history)
    /\ UNCHANGED <<payload, r, api_err, history, last_result, last_payload,
                   posts, netCalls, clock, nSubmit, nSuccess>>

\* predict_btn: lines 247-284
Begin(form, cap) ==
    /\ pc \in {"idle", "done"}
    /\ nSubmit < cap
    /\ nSubmit' = nSubmit + 1
    /\ payload' = Some(BuildPayload(form))
    /\ r' = None
    /\ api_err' = None
    /\ shown' = None
    /\ raised' = "none"
    /\ posts' = 0
    /\ pc' = "request"
    /\ UNCHANGED <<backend_input, history, last_result, last_payload,
                   netCalls, clock, nSuccess, displayed, recent>>

TransportFailure(e) == [failed |-> TRUE, error |-> e, response |-> Response(0, NotJsonText)]
Answer(resp) == [failed |-> FALSE, error |-> "none", response |-> resp]
\* what the network may do with one POST: a transport error or a response
Network(responses) ==
    { TransportFailure(e) : e \in TransportErrors } \cup { Answer(x) : x \in responses }

\* variant: a failed POST is attempted a second time
Post_retry(env) ==
    /\ posts' = IF env.failed THEN posts + 2 ELSE posts + 1
    /\ netCalls' = IF env.failed THEN netCalls + 2 ELSE netCalls + 1
    /\ IF env.failed
       THEN api_err' = Some(env.error) /\ r' = None
       ELSE api_err' = None /\ r' = Some(env.response)

\* requests.post(PREDICT_ENDPOINT, ...), line 293, and the except clause
Post(env) ==
    /\ posts' = posts + 1
    /\ netCalls' = netCalls + 1
    /\ IF env.failed
       THEN api_err' = Some(env.error) /\ r' = None
       ELSE api_err' = None /\ r' = Some(env.response)

\* the try block, lines 285-296, and the animation, lines 299-327
Request(env) ==
    /\ pc = "request"
    /\ IF PREDICT_ENDPOINT(backend_input) = None
       THEN /\ api_err' = Some(NotConfigured)
            /\ r' = None
            /\ UNCHANGED <<posts, netCalls>>
       ELSE Post(env)
    /\ clock' = clock + 1
    /\ pc' = "handle"
    /\ UNCHANGED <<backend_input, payload, history, last_result, last_payload,
                   shown, raised, nSubmit, nSuccess, displayed, recent>>

\* variant: the body is always reported as raw text
err_json_text_only(text) == [form |-> "text", text |-> text]

\* lines 352-355
err_json(text) ==
    IF text.json THEN [form |-> "json", text |-> text] ELSE [form |-> "text", text |-> text]

\* line 331
RequestFailed ==
    [kind |-> "Prediction request failed", status |-> 0,
     cause |-> IF api_err # None THEN api_err[1] ELSE "No backend URL provided.",
     body |-> NoBody]

\* line 356
ApiError(resp) ==
    [kind |-> "API Error", status |-> resp.status, cause |-> "none",
     body |-> err_json(resp.text)]

\* lines 341-347
HistoryEntry(j) ==
    [ts |-> clock, payload |-> payload[1], predicted |-> predicted(j),
     low |-> low(j), high |-> high(j)]

\* variant: history.append(entry)
insert0_append(h, entry) == h \o <<entry>>

\* history.insert(0, entry)
insert0(h, entry) == <<entry>> \o h

\* variant: a failure also clears the last recorded payload
Fail_clears_payload(message) ==
    /\ shown' = Some(message)
    /\ last_result' = None
    /\ last_payload' = None
    /\ Render(None, history)
    /\ UNCHANGED <<history, raised, nSuccess>>

\* the two failure branches, lines 331-332 and 356-357
Fail(message) ==
    /\ shown' = Some(message)
    /\ last_result' = None
    /\ Render(None, history)
    /\ UNCHANGED <<history, last_payload, raised, nSuccess>>

\* an exception leaves the script run: nothing below the raising line runs
Abort(exception) ==
    /\ raised' = exception
    /\ UNCHANGED <<history, last_result, last_payload, shown, nSuccess,
                   displayed, recent>>

\* lines 337-349
Record(j) ==
    /\ history' = insert0(history, HistoryEntry(j))
    /\ last_result' = Some([predicted |-> predicted(j), low |-> low(j), high |-> high(j)])
    /\ last_payload' = payload
    /\ nSuccess' = nSuccess + 1
    /\ Render(last_result', history')
    /\ UNCHANGED <<shown, raised>>

\* lines 330-357 and the output below them
Handle ==
    /\ pc = "handle"
    /\ pc' = "done"
    /\ IF r = None
       THEN Fail(RequestFailed)
       ELSE IF r[1].status = StatusOK
       THEN IF ParseRaises(r[1].text) # "none"
            THEN Abort(ParseRaises(r[1].text))
            ELSE Record(r[1].text.doc)
       ELSE Fail(ApiError(r[1]))
    /\ UNCHANGED <<backend_input, payload, r, api_err, posts, netCalls, clock, nSubmit>>

\* ---------------------------------------------------------------
\* Specifications
\* ---------------------------------------------------------------
\* a session of up to MaxSubmissions submissions
Next ==
    \/ \E input \in BackendInputs : SetBackend(input)
    \/ \E form \in Profiles : Begin(form, MaxSubmissions)
    \/ \E env \in Network(Responses) : Request(env)
    \/ Handle

Spec == Init /\ [][Next]_vars

\* one submission against every response body
NextParse ==
    \/ \E input \in BackendInputs : SetBackend(input)
    \/ \E form \in Profiles : Begin(form, 1)
    \/ \E env \in Network(ParseResponses) : Request(env)
    \/ Handle

SpecParse == Init /\ [][NextParse]_vars

\* a long session, for the history list
HistoryProfiles == { f \in Profiles : f.age = 25 }
HistoryBackends == { <<>>, <<"h">> }

NextHistory ==
    \/ \E input \in HistoryBackends : SetBackend(input)
    \/ \E form \in HistoryProfiles : Begin(form, MaxHistorySubmissions)
    \/ \E env \in { Answer(x) : x \in HistoryResponses } : Request(env)
    \/ Handle

SpecHistory == Init /\ [][NextHistory]_vars

\* ---------------------------------------------------------------
\* Vocabulary of the properties
\* ---------------------------------------------------------------
ClassifiedErrors == {"ConfigurationError", "NetworkError", "RemoteError"}

\* the error class a message of st.error stands for
ErrorKind(message) ==
    IF message.kind = "API Error" THEN "RemoteError"
    ELSE IF message.cause = NotConfigured THEN "ConfigurationError"
    ELSE "NetworkError"

\* how the script run of a submission ended (meaningful when pc = "done")
Outcome ==
    IF raised # "none" THEN "Unhandled"
    ELSE IF shown # None THEN ErrorKind(shown[1])
    ELSE "PredictionResult"

Succeeded == pc = "done" /\ Outcome = "PredictionResult"

\* Idle -> Requesting -> {Success, Failed}
Phase ==
    CASE pc = "idle" -> "Idle"
      [] pc \in {"request", "handle"} -> "Requesting"
      [] OTHER -> IF Outcome = "PredictionResult" THEN "Success" ELSE "Failed"

\* the body members of the response of the submission in progress
Body == r[1].text.doc

\* ---------------------------------------------------------------
\* C1
\* ---------------------------------------------------------------
\* C1: a submission made while the backend base URL is empty ends in a
\* configuration error and has made no POST to the predict endpoint,
\* whatever submissions came before it.
C1_UnconfiguredNoNetwork ==
    (pc = "done" /\ BACKEND_URL(backend_input) = <<>>)
        => /\ Outcome = "ConfigurationError"
           /\ posts = 0
           /\ r = None

\* an unconfigured submission after an earlier one that did reach the network
C1_Witness ==
    /\ pc = "done"
    /\ BACKEND_URL(backend_input) = <<>>
    /\ backend_input # <<>>
    /\ Outcome = "ConfigurationError"
    /\ netCalls >= 1
    /\ Len(history) >= 1

\* ---------------------------------------------------------------
\* C2
\* ---------------------------------------------------------------
\* C2: whatever the remote service does, a submission ends in a prediction
\* result or in a Configuration, Network or Remote error, never in an
\* unhandled exception.
C2_NeverUnhandled ==
    pc = "done" => Outcome \in {"PredictionResult"} \cup ClassifiedErrors

\* ---------------------------------------------------------------
\* C3
\* ---------------------------------------------------------------
\* C3 as stated: when a 200 response has neither low nor high, the result's
\* low is exactly predicted x 0.85 and its high exactly predicted x 1.15.
C3_ExactBand ==
    (Succeeded /\ Body["low"] = Absent /\ Body["high"] = Absent)
        => LET res == last_result[1] IN
           /\ res.low.u = 0 /\ res.low.n * 100 = res.predicted.n * 85
           /\ res.high.u = 0 /\ res.high.n * 100 = res.predicted.n * 115

\* C3 amended: when a 200 response has neither low nor high, the result's low
\* and high are the double-precision products predicted * 0.85 and
\* predicted * 1.15: the doubles at or next below the exact values (95000
\* yields low 80750.0 and high 109249.99999999999), stored alike in the result
\* and in the history entry.
C3_DoubleBand ==
    (Succeeded /\ Body["low"] = Absent /\ Body["high"] = Absent)
        => LET res == last_result[1] IN
           /\ res.low.t = "num" /\ res.high.t = "num"
           /\ res.low.n * 100 = res.predicted.n * 85
           /\ res.high.n * 100 = res.predicted.n * 115
           /\ res.low.u \in {-1, 0} /\ res.high.u \in {-1, 0}
           /\ res.predicted.n = 95000
                => res.low = Num(80750) /\ res.high = [t |-> "num", n |-> 109250, u |-> -1]
           /\ res.predicted.n = 60000
                => res.low = Num(51000) /\ res.high = Num(69000)
           /\ history[1].low = res.low /\ history[1].high = res.high

\* {"predicted_salary_usd": 95000} answered with 200
C3_Witness ==
    /\ Succeeded
    /\ Body = BareDoc
    /\ last_result[1].predicted = Num(95000)
    /\ last_result[1].low = Num(80750)
    /\ last_result[1].high.n = 109250

\* ---------------------------------------------------------------
\* C4
\* ---------------------------------------------------------------
\* C4: when a 200 response supplies a numeric low and/or high, 0 included, the
\* result carries exactly the supplied value for that bound.
C4_ExplicitPrecedence ==
    Succeeded
        => /\ Body["low"].t = "num" => last_result[1].low = Body["low"]
           /\ Body["high"].t = "num" => last_result[1].high = Body["high"]

\* ---------------------------------------------------------------
\* C5
\* ---------------------------------------------------------------
\* C5: the predicted value of a result is the value of predicted_salary_usd
\* when that member is present, otherwise that of predicted_salary when
\* present, otherwise 0.
C5_PredictedPrecedence ==
    Succeeded
        => LET expected ==
                   IF Body["predicted_salary_usd"] # Absent
                   THEN Body["predicted_salary_usd"].n
                   ELSE IF Body["predicted_salary"] # Absent
                   THEN Body["predicted_salary"].n
                   ELSE 0
           IN  /\ last_result[1].predicted = Num(expected)
               /\ history[1].predicted = Num(expected)

\* both members present with different values: predicted_salary_usd wins
C5_Witness ==
    /\ Succeeded
    /\ Body["predicted_salary_usd"] = Num(95000)
    /\ Body["predicted_salary"] = Num(20)
    /\ last_result[1].predicted = Num(95000)

\* ---------------------------------------------------------------
\* C6
\* ---------------------------------------------------------------
\* C6: on a 200 response without low/high but with low_usd/high_usd, the
\* result's low and high are the low_usd and high_usd values.
C6_UsdAliases ==
    (Succeeded /\ Body["low"] = Absent /\ Body["high"] = Absent
               /\ Body["low_usd"] # Absent /\ Body["high_usd"] # Absent)
        => /\ last_result[1].low = Body["low_usd"]
           /\ last_result[1].high = Body["high_usd"]

\* ---------------------------------------------------------------
\* C7
\* ---------------------------------------------------------------
\* C7: a response with a status other than 200 ends the submission in a remote
\* error carrying the status code and the body (parsed when it is JSON, raw
\* text otherwise), and no prediction result is produced whatever the body
\* contains.
C7_RemoteError ==
    (pc = "done" /\ r # None /\ r[1].status # StatusOK)
        => /\ Outcome = "RemoteError"
           /\ shown[1].status = r[1].status
           /\ shown[1].body.text = r[1].text
           /\ shown[1].body.form = IF r[1].text.json THEN "json" ELSE "text"
           /\ last_result = None
           /\ displayed = None
           /\ \A i \in 1..Len(history) : history[i].ts # clock

\* a 500 whose body is a well-formed prediction
C7_Witness ==
    /\ pc = "done"
    /\ r # None
    /\ r[1].status = 500
    /\ r[1].text = JsonObject(FullDoc)
    /\ shown[1].body.form = "json"

\* ---------------------------------------------------------------
\* C8
\* ---------------------------------------------------------------
\* C8: a submission goes Idle -> Requesting -> {Success, Failed}; it makes at
\* most one POST, exactly one when an endpoint is configured, and a transport
\* failure or a non-200 status takes it to Failed without another POST.
C8_SingleAttempt ==
    [][ /\ posts' <= 1
        /\ Phase = "Idle" => Phase' \in {"Idle", "Requesting"}
        /\ Phase = "Requesting" => Phase' \in {"Requesting", "Success", "Failed"}
        /\ (Phase = "Requesting" /\ Phase' \in {"Success", "Failed"})
             => posts' = IF PREDICT_ENDPOINT(backend_input) # None THEN 1 ELSE 0
        /\ (pc = "handle" /\ (r = None \/ r[1].status # StatusOK))
             => Phase' = "Failed" /\ posts' = posts /\ netCalls' = netCalls
      ]_vars

\* a transport failure that ended in Failed after one POST
C8_Witness ==
    /\ Phase = "Failed"
    /\ api_err \in {Some(e) : e \in TransportErrors}
    /\ posts = 1

\* ---------------------------------------------------------------
\* C9
\* ---------------------------------------------------------------
\* C9: the history holds one entry per successful submission, newest first:
\* a success puts its own result in front of the entries already there, the
\* entries' times decrease along the list, and listing the first 6 leaves all
\* of them stored.
C9_NewestFirst ==
    /\ [](/\ Len(history) = nSuccess
          /\ \A k \in 1..(Len(history) - 1) : history[k + 1].ts < history[k].ts
          /\ \A k \in 1..Len(history) : history[k].ts <= clock
          /\ (pc = "done" /\ raised = "none")
               => /\ Len(recent) = (IF nSuccess < DisplayLimit THEN nSuccess ELSE DisplayLimit)
                  /\ \A k \in 1..Len(recent) : recent[k] = history[k])
    /\ [][ nSuccess' = nSuccess + 1
             => /\ Tail(history') = history
                /\ Head(history').ts = clock
                /\ Head(history').payload = payload[1]
                /\ last_result' = Some([predicted |-> Head(history').predicted,
                                        low |-> Head(history').low,
                                        high |-> Head(history').high])
         ]_vars

\* more entries stored than listed
C9_Witness ==
    /\ pc = "done"
    /\ Len(history) = DisplayLimit + 1
    /\ Len(recent) = DisplayLimit
    /\ history[1].ts > history[DisplayLimit + 1].ts

\* ---------------------------------------------------------------
\* C10
\* ---------------------------------------------------------------
\* C10: a submission that ends in a configuration, network or remote error
\* leaves the history and the last recorded payload as they were, and the
\* next submission is accepted and starts from the same clean state as any
\* other.
C10_ErrorNotFatal ==
    /\ []((pc = "done" /\ Outcome \in ClassifiedErrors /\ nSubmit < MaxSubmissions)
            => \A f \in Profiles : ENABLED Begin(f, MaxSubmissions))
    /\ [][ /\ (pc = "handle" /\ pc' = "done" /\ Outcome' \in ClassifiedErrors)
                => /\ history' = history
                   /\ last_payload' = last_payload
                   /\ nSuccess' = nSuccess
           /\ pc = "request" => history' = history /\ last_payload' = last_payload
           /\ (pc = "done" /\ pc' = "request")
                => /\ r' = None /\ api_err' = None /\ posts' = 0
                   /\ shown' = None /\ raised' = "none"
                   /\ history' = history /\ last_payload' = last_payload
         ]_vars

\* a failed submission after a successful one: its payload is not the recorded one
C10_Witness ==
    /\ pc = "done"
    /\ Outcome \in ClassifiedErrors
    /\ Len(history) = 1
    /\ last_payload # None
    /\ last_payload # payload
    /\ nSubmit < MaxSubmissions

\* ---------------------------------------------------------------
\* C11
\* ---------------------------------------------------------------
\* C11: the displayed last result is absent or equal in predicted, low and
\* high to the first history entry, and it is absent after every submission
\* that failed, so that no result of an earlier success is shown after a
\* failure.
C11_NoStaleResult ==
    LET Fresh(result) ==
            \/ result = None
            \/ /\ history # <<>>
               /\ result[1] = [predicted |-> history[1].predicted,
                               low |-> history[1].low, high |-> history[1].high]
    IN  /\ Fresh(last_result)
        /\ Fresh(displayed)
        /\ (pc = "done" /\ Phase = "Failed")
             => last_result = None /\ displayed = None
====
